---------------------------- MODULE Spec2Model ----------------------------
(***************************************************************************)
(* Dementia Stage Prediction dashboard (src/stream_app.py).                *)
(*                                                                         *)
(* The script is re-executed top to bottom by the hosting UI framework on  *)
(* every user interaction of a browser session.  Several sessions share    *)
(* one process: the cached classifier object and the working directory     *)
(* (the file temp_force_plot.html) are process-wide, everything else is    *)
(* local to one script run of one session.                                 *)
(*                                                                         *)
(* Units: the two SUVR sliders are counted in steps of 0.01 (so -2.00 is   *)
(* -200); probabilities and attribution values are counted in 1/10000.     *)
(***************************************************************************)
EXTENDS Integers, Sequences, FiniteSets, TLC

\* Number of browser sessions attached to the one server process.
NumSessions == 2

Sessions == 1..NumSessions

(***************************************************************************)
(* Sidebar sliders, lines 35-38: st.sidebar.slider(label, min, max, value, *)
(* step).                                                                  *)
(***************************************************************************)
EducationSlider ==
    [label |-> "Years of Education", min_value |-> 0, max_value |-> 30,
     value |-> 12, step |-> 1]

MMSESlider ==
    [label |-> "MMSE", min_value |-> 0, max_value |-> 30,
     value |-> 25, step |-> 1]

FDGSlider ==
    [label |-> "FDG_SUVR_Score", min_value |-> -200, max_value |-> 200,
     value |-> 0, step |-> 1]

AmyloidSlider ==
    [label |-> "Amyloid_SUVR_Score", min_value |-> -200, max_value |-> 200,
     value |-> 0, step |-> 1]

\* Every position a slider can return: min + k*step, not beyond max.
SliderRange(w) ==
    { w.min_value + k * w.step :
        k \in 0..((w.max_value - w.min_value) \div w.step) }

\* The widget values of a session before the user has touched anything.
DefaultWidgets ==
    [education_years |-> EducationSlider.value,
     mmse            |-> MMSESlider.value,
     fdg_suvr        |-> FDGSlider.value,
     amyloid_suvr    |-> AmyloidSlider.value]

\* The slider settings the user is taken to choose among: the defaults and
\* the two opposite corners of the slider ranges.
ScenarioWidgets ==
    { DefaultWidgets,
      [education_years |-> EducationSlider.min_value,
       mmse            |-> MMSESlider.max_value,
       fdg_suvr        |-> FDGSlider.max_value,
       amyloid_suvr    |-> AmyloidSlider.max_value],
      [education_years |-> EducationSlider.max_value,
       mmse            |-> MMSESlider.min_value,
       fdg_suvr        |-> FDGSlider.min_value,
       amyloid_suvr    |-> AmyloidSlider.min_value] }

\* A slider never returns a value outside its range: the settings on offer
\* are those of ScenarioWidgets every slider can produce.
WidgetChoices ==
    { w \in ScenarioWidgets :
        /\ w.education_years \in SliderRange(EducationSlider)
        /\ w.mmse            \in SliderRange(MMSESlider)
        /\ w.fdg_suvr        \in SliderRange(FDGSlider)
        /\ w.amyloid_suvr    \in SliderRange(AmyloidSlider) }

(***************************************************************************)
(* The one-row table, lines 43-48: pd.DataFrame({...}).reindex(columns).   *)
(* A table row is a sequence of <<column name, value>> pairs.              *)
(***************************************************************************)
\* pandas fills a column that reindex does not find with NaN.
NaN == -9999

\* The dict handed to pd.DataFrame, in insertion order.
DataFrameOf(w) ==
    << <<"Education", w.education_years>>,
       <<"MMSE", w.mmse>>,
       <<"FDG_SUVR_Score", w.fdg_suvr>>,
       <<"Amyloid_SUVR_Score", w.amyloid_suvr>> >>

\* Mutant: the columns handed to reindex in another order.
ReindexColumns_Swapped ==
    <<"MMSE", "Education", "FDG_SUVR_Score", "Amyloid_SUVR_Score">>

\* The columns list handed to reindex.
ReindexColumns ==
    <<"Education", "MMSE", "FDG_SUVR_Score", "Amyloid_SUVR_Score">>

\* df.reindex(columns=cols): the columns named, in the order named.
Reindex(df, cols) ==
    [ i \in 1..Len(cols) |->
        IF \E j \in 1..Len(df) : df[j][1] = cols[i]
        THEN << cols[i], df[CHOOSE j \in 1..Len(df) : df[j][1] = cols[i]][2] >>
        ELSE << cols[i], NaN >> ]

BuildInputData(w) == Reindex(DataFrameOf(w), ReindexColumns)

ColumnsOf(df) == [ i \in 1..Len(df) |-> df[i][1] ]
RowOf(df)     == [ i \in 1..Len(df) |-> df[i][2] ]

(***************************************************************************)
(* The pretrained classifier xgb_model.pkl and the attribution library.    *)
(* Neither is part of the source: a deterministic two-class tree ensemble  *)
(* over the four trained columns, and an exact additive attribution of its *)
(* output, as the specification describes them.                            *)
(***************************************************************************)
Classes == {0, 1}

\* The columns the classifier was trained on, in training order.
TrainedColumns ==
    <<"Education", "MMSE", "FDG_SUVR_Score", "Amyloid_SUVR_Score">>

\* The model refuses a table whose columns are not the trained ones.
ModelAccepts(df) == ColumnsOf(df) = TrainedColumns

\* Reference output of the ensemble for class 1.
BaseValue == 6000

\* One stump per feature; a missing value (NaN) takes the low branch.
TreeOutput(i, x) ==
    CASE i = 1 -> IF x # NaN /\ x >= 12 THEN 517 ELSE -486
      [] i = 2 -> IF x # NaN /\ x >= 24 THEN 2080 ELSE -2513
      [] i = 3 -> IF x # NaN /\ x >= 0 THEN 1003 ELSE -1001
      [] i = 4 -> IF x # NaN /\ x > 0 THEN -1500 ELSE 400

RECURSIVE SumSeq(_)
SumSeq(q) == IF q = <<>> THEN 0 ELSE q[1] + SumSeq(Tail(q))

Contributions(df) == [ i \in 1..Len(df) |-> TreeOutput(i, df[i][2]) ]

\* model.predict_proba(df)[0]: the probability of each class.
PredictProba(df) ==
    LET p1 == BaseValue + SumSeq(Contributions(df))
    IN  [ c \in Classes |-> IF c = 1 THEN p1 ELSE 10000 - p1 ]

\* model.predict(df)[0]: the more probable class, class 0 on a tie.
Predict(df) == IF PredictProba(df)[1] > PredictProba(df)[0] THEN 1 ELSE 0

\* The two shapes an attribution result can have.  "single": one output,
\* values[row][feature] (kept in values2d, the row dropped) and a scalar
\* expected value.  "per_class": values[row][feature][class] (values3d) and
\* one expected value per class.
ModelKinds == {"single", "per_class"}

\* explainer(df) with explainer.expected_value, for a model of the kind.
ShapValues(kind, df) ==
    LET t == Contributions(df)
    IN  IF kind = "per_class"
        THEN [ndim |-> 3,
              values3d |-> [ i \in 1..Len(t) |->
                            [ c \in Classes |-> IF c = 1 THEN t[i] ELSE -t[i] ] ],
              values2d |-> <<>>,
              expected_value |->
                  [ c \in Classes |-> IF c = 1 THEN BaseValue ELSE 10000 - BaseValue ],
              expected_scalar |-> 0]
        ELSE [ndim |-> 2,
              values3d |-> <<>>,
              values2d |-> t,
              expected_value |-> <<>>,
              expected_scalar |-> BaseValue]

(***************************************************************************)
(* Values of the handler, lines 57-83 and 90.                              *)
(***************************************************************************)
\* Mutant: the label mapping keyed from 1 instead of 0.
class_map_Shifted ==
    (1 :> "Moderate to Severe Dementia") @@ (2 :> "Very Mild to Mild Dementia")

class_map ==
    (0 :> "Moderate to Severe Dementia") @@ (1 :> "Very Mild to Mild Dementia")

\* f"{pred_prob:.3f}": the confidence rounded to three decimals (1/1000).
Format3f(p) == (p + 5) \div 10

\* Mutant: the slice and base value of class 1, whatever was predicted.
SelectAttribution_ClassOne(shap_values, pred_class) ==
    IF shap_values.ndim = 3
    THEN [sv   |-> [ i \in 1..Len(shap_values.values3d) |->
                       shap_values.values3d[i][1] ],
          base |-> shap_values.expected_value[1]]
    ELSE [sv   |-> shap_values.values2d,
          base |-> shap_values.expected_scalar]

\* Lines 71-76: the attribution slice and base value handed on.
SelectAttribution(shap_values, pred_class) ==
    IF shap_values.ndim = 3
    THEN [sv   |-> [ i \in 1..Len(shap_values.values3d) |->
                       shap_values.values3d[i][pred_class] ],
          base |-> shap_values.expected_value[pred_class]]
    ELSE [sv   |-> shap_values.values2d,
          base |-> shap_values.expected_scalar]

\* Lines 78-83: shap.Explanation(values, base_values, data, feature_names).
NoExplanation ==
    [values |-> <<>>, base_values |-> 0, data |-> <<>>, feature_names |-> <<>>]

Explanation(sv, base, df) ==
    [values |-> sv, base_values |-> base, data |-> RowOf(df),
     feature_names |-> ColumnsOf(df)]

\* Lines 90-94: the interactive document drawn from an explanation.
NoPlot == [plot |-> "none", of |-> NoExplanation]
ForcePlot(e) == [plot |-> "force", of |-> e]
WaterfallPlot(e) == [plot |-> "waterfall", of |-> e]

(***************************************************************************)
(* Exceptions and page elements.                                           *)
(***************************************************************************)
NoExc == [type |-> "None", at |-> "None"]
Exc(type, at) == [type |-> type, at |-> at]

El(kind) == [kind |-> kind, text |-> "", num |-> 0, plot |-> NoPlot, err |-> NoExc]
TextEl(kind, t) == [El(kind) EXCEPT !.text = t]
NumEl(kind, n)  == [El(kind) EXCEPT !.num = n]
PlotEl(kind, p) == [El(kind) EXCEPT !.plot = p]
ErrEl(kind, e)  == [El(kind) EXCEPT !.err = e]

\* Line 32 (the sidebar is not part of the main page column).
Header == << TextEl("title", "Dementia Stage Prediction") >>

\* Lines 129-130.
Footer == << TextEl("markdown", "---"), TextEl("caption", "footer") >>

\* Lines 64-65.
PredictionOutputs(pred_class, pred_prob) ==
    << TextEl("success", class_map[pred_class]),
       NumEl("write", Format3f(pred_prob)) >>

\* Line 88.
PanelAHeading == << TextEl("markdown", "A. SHAP Force Plot") >>

\* Line 97.
ForceOutputs(content) == << PlotEl("html", content) >>

\* Lines 103-111: what panel B shows before the waterfall is drawn.
PanelBHeading ==
    << TextEl("caption", "A."), TextEl("markdown", "B. SHAP Waterfall Plot") >>

\* Lines 114-120.
WaterfallOutputs(e) ==
    << PlotEl("pyplot", WaterfallPlot(e)), TextEl("caption", "B.") >>

\* Mutant: the banner without the trace.
ExceptOutputs_BannerOnly(e) == << ErrEl("error", e) >>

\* Lines 123-124: st.error(f"Error: {e}") and st.exception(e).
ExceptOutputs(e) == << ErrEl("error", e), ErrEl("exception", e) >>

\* What the framework shows for an exception that leaves the script.
UncaughtOutputs(e) == << ErrEl("uncaught", e) >>

(***************************************************************************)
(* State.                                                                  *)
(***************************************************************************)
VARIABLES
    model_cache,   \* st.cache_resource's entry for load_model: process-wide
    loads,         \* how many times pickle.load has returned a classifier
    file,          \* temp_force_plot.html in the working directory
    widgets,       \* per session: the slider positions
    pc,            \* per session: where its script run stands
    button,        \* per session: what st.button returned in the run (line 53)
    loc,           \* per session: the variables of its current or last run
    fh,            \* per session: the handle of "with open(...) as f"
    exc,           \* per session: the exception raised in the run, if any
    page,          \* per session: the elements on the page, in order
    failedBefore,  \* per session: an earlier invocation ended in the except branch
    interfered,    \* per session: another session wrote or removed the file
                   \* since this session's own save_html
    history        \* per input table: the first result computed for it

vars == << model_cache, loads, file, widgets, pc, button, loc, fh, exc, page,
           failedBefore, interfered, history >>

NoModel == [loaded |-> FALSE, kind |-> "None"]

NoShap ==
    [ndim |-> 0, values3d |-> <<>>, values2d |-> <<>>,
     expected_value |-> <<>>, expected_scalar |-> 0]

\* The script's variables before the handler has assigned any of them.
FreshLocals(model, w) ==
    [model           |-> model,
     input_data      |-> BuildInputData(w),
     pred_class      |-> -1,
     pred_prob       |-> -1,
     shap_values     |-> NoShap,
     sv              |-> <<>>,
     base            |-> 0,
     explanation     |-> NoExplanation,
     force_plot_html |-> NoPlot]

NoLocals ==
    [model           |-> "None",
     input_data      |-> <<>>,
     pred_class      |-> -1,
     pred_prob       |-> -1,
     shap_values     |-> NoShap,
     sv              |-> <<>>,
     base            |-> 0,
     explanation     |-> NoExplanation,
     force_plot_html |-> NoPlot]

NoFile == [exists |-> FALSE, content |-> NoPlot]
ClosedHandle == [state |-> "closed", content |-> NoPlot]

NoResult == [known |-> FALSE, pred_class |-> -1, pred_prob |-> -1,
             sv |-> <<>>, base |-> 0]

\* The input tables the sliders on offer can produce.
InputTables == { BuildInputData(w) : w \in WidgetChoices }

Init ==
    /\ model_cache = NoModel
    /\ loads = 0
    /\ file = NoFile
    /\ widgets = [s \in Sessions |-> DefaultWidgets]
    /\ pc = [s \in Sessions |-> "new"]
    /\ button = [s \in Sessions |-> FALSE]
    /\ loc = [s \in Sessions |-> NoLocals]
    /\ fh = [s \in Sessions |-> ClosedHandle]
    /\ exc = [s \in Sessions |-> NoExc]
    /\ page = [s \in Sessions |-> <<>>]
    /\ failedBefore = [s \in Sessions |-> FALSE]
    /\ interfered = [s \in Sessions |-> FALSE]
    /\ history = [d \in InputTables |-> NoResult]

(***************************************************************************)
(* Lines 22-27: load_model under @st.cache_resource.  The results the call *)
(* can have: the cached object on a hit; on a miss either the unpickled    *)
(* classifier, which is then cached, or the exception of open/pickle.load. *)
(* The framework lets one thread at a time compute a missing entry.        *)
(***************************************************************************)
\* Mutant: load_model without the cache decorator.
load_model_Uncached(cache) ==
    { [raised |-> FALSE, kind |-> k, unpickled |-> TRUE] : k \in ModelKinds }
    \cup { [raised |-> TRUE, kind |-> "None", unpickled |-> FALSE] }

load_model(cache) ==
    IF cache.loaded
    THEN { [raised |-> FALSE, kind |-> cache.kind, unpickled |-> FALSE] }
    ELSE { [raised |-> FALSE, kind |-> k, unpickled |-> TRUE] : k \in ModelKinds }
         \cup { [raised |-> TRUE, kind |-> "None", unpickled |-> FALSE] }

\* The top of the script, lines 12-48, as one script run of session s starts
\* with the sliders at w.  Line 27 is outside the try block: an exception of
\* load_model leaves the script, and the framework ends the run there.
TopOfScript(s, w, next) ==
    \E r \in load_model(model_cache) :
        /\ widgets' = [widgets EXCEPT ![s] = w]
        /\ button' = [button EXCEPT ![s] = (next = "predict")]
        /\ fh' = [fh EXCEPT ![s] = ClosedHandle]
        /\ interfered' = [interfered EXCEPT ![s] = FALSE]
        /\ UNCHANGED << file, failedBefore, history >>
        /\ IF r.raised
           THEN /\ pc' = [pc EXCEPT ![s] = "aborted"]
                /\ exc' = [exc EXCEPT ![s] = Exc("LoadError", "load_model")]
                /\ loc' = [loc EXCEPT ![s] = NoLocals]
                /\ page' = [page EXCEPT ![s] =
                               UncaughtOutputs(Exc("LoadError", "load_model"))]
                /\ UNCHANGED << model_cache, loads >>
           ELSE /\ model_cache' = [loaded |-> TRUE, kind |-> r.kind]
                /\ loads' = IF r.unpickled THEN loads + 1 ELSE loads
                /\ exc' = [exc EXCEPT ![s] = NoExc]
                /\ loc' = [loc EXCEPT ![s] = FreshLocals(r.kind, w)]
                /\ pc' = [pc EXCEPT ![s] = next]
                /\ page' = [page EXCEPT ![s] =
                               IF next = "idle" THEN Header \o Footer ELSE Header]

\* A script run in which the button is not pressed (line 53 is false): the
\* first run of a session, a rerun after the user moved the sliders, or a
\* rerun of a page whose last run was aborted.  The sliders can only be moved
\* once a run has drawn them.
Rerun(s) ==
    /\ pc[s] \in {"new", "idle", "aborted"}
    /\ \E w \in (IF pc[s] = "idle" THEN WidgetChoices ELSE {widgets[s]}) :
           TopOfScript(s, w, "idle")

\* The user presses "Run Prediction": a script run in which line 53 is true.
PressButton(s) ==
    /\ pc[s] = "idle"
    /\ TopOfScript(s, widgets[s], "predict")

(***************************************************************************)
(* The handler, lines 53-124: one action per step.  Steps that touch only  *)
(* the run's own variables and page are taken together; every access to    *)
(* temp_force_plot.html is a step of its own, since other sessions' runs   *)
(* can come in between.                                                    *)
(***************************************************************************)
\* Mutant: the exception is not caught and ends the script run.
Raise_Escapes(s, e) ==
    /\ exc' = [exc EXCEPT ![s] = e]
    /\ pc' = [pc EXCEPT ![s] = "aborted"]

\* An exception raised inside the try block: control goes to line 122.
Raise(s, e) ==
    /\ exc' = [exc EXCEPT ![s] = e]
    /\ pc' = [pc EXCEPT ![s] = "except"]

Goto(s, next) ==
    /\ pc' = [pc EXCEPT ![s] = next]
    /\ UNCHANGED exc

Show(s, elements) == page' = [page EXCEPT ![s] = page[s] \o elements]

\* Mutant: the class is taken from a result some run has left behind.
PredClass_Memo(df) ==
    LET done == { t \in Sessions : loc[t].pred_class \in Classes }
    IN  IF done # {}
        THEN loc[CHOOSE t \in done : TRUE].pred_class
        ELSE Predict(df)

\* Line 57: int(model.predict(input_data)[0]).
PredClass(df) == Predict(df)

\* Line 58: model.predict_proba(input_data)[0][pred_class].
PredProb(df, pred_class) == PredictProba(df)[pred_class]

\* Lines 57-65.
PredictBlock(s) ==
    /\ pc[s] = "predict"
    /\ UNCHANGED << model_cache, loads, file, widgets, button, fh, failedBefore,
                    interfered, history >>
    /\ LET df == loc[s].input_data
           c  == PredClass(df)
       IN  IF ~ModelAccepts(df)
           THEN /\ Raise(s, Exc("ValueError", "model.predict"))
                /\ UNCHANGED << loc, page >>
           ELSE IF c \notin DOMAIN PredictProba(df)
           THEN /\ Raise(s, Exc("IndexError", "predict_proba"))
                /\ loc' = [loc EXCEPT ![s].pred_class = c]
                /\ UNCHANGED page
           ELSE IF c \notin DOMAIN class_map
           THEN /\ Raise(s, Exc("KeyError", "class_map"))
                /\ loc' = [loc EXCEPT ![s].pred_class = c,
                                      ![s].pred_prob = PredProb(df, c)]
                /\ UNCHANGED page
           ELSE /\ Goto(s, "explain")
                /\ loc' = [loc EXCEPT ![s].pred_class = c,
                                      ![s].pred_prob = PredProb(df, c)]
                /\ Show(s, PredictionOutputs(c, PredProb(df, c)))

\* Lines 68-83.
ExplainBlock(s) ==
    /\ pc[s] = "explain"
    /\ UNCHANGED << model_cache, loads, file, widgets, button, fh, failedBefore,
                    interfered, page >>
    /\ LET df  == loc[s].input_data
           shv == ShapValues(loc[s].model, df)
           sel == SelectAttribution(shv, loc[s].pred_class)
           res == [known |-> TRUE, pred_class |-> loc[s].pred_class,
                   pred_prob |-> loc[s].pred_prob,
                   sv |-> sel.sv, base |-> sel.base]
       IN  /\ loc' = [loc EXCEPT ![s].shap_values = shv,
                                 ![s].sv = sel.sv,
                                 ![s].base = sel.base,
                                 ![s].explanation = Explanation(sel.sv, sel.base, df)]
           /\ history' = [history EXCEPT ![df] = IF @.known THEN @ ELSE res]
    /\ Goto(s, "force")

\* Lines 88-94.
ForceBlock(s) ==
    /\ pc[s] = "force"
    /\ UNCHANGED << model_cache, loads, file, widgets, button, fh, failedBefore,
                    interfered, history >>
    /\ loc' = [loc EXCEPT ![s].force_plot_html = ForcePlot(loc[s].explanation)]
    /\ Show(s, PanelAHeading)
    /\ Goto(s, "save")

\* The steps of a run between its save_html and its os.remove.
FileWindow == {"open", "read", "exists", "remove"}

\* Another session's write or removal reaches every run inside its window.
Disturb(s) ==
    [t \in Sessions |->
        IF t = s THEN interfered[s]
        ELSE interfered[t] \/ pc[t] \in FileWindow]

\* Mutant: the document is saved under another name than the one read.
SaveHtml_OtherName(s) ==
    /\ pc[s] = "save"
    /\ UNCHANGED << model_cache, loads, widgets, button, loc, fh, failedBefore,
                    page, file, history >>
    /\ interfered' = [interfered EXCEPT ![s] = FALSE]
    /\ pc' = [pc EXCEPT ![s] = "open"]
    /\ UNCHANGED exc

\* Line 95: shap.save_html("temp_force_plot.html", force_plot_html) creates
\* the file or overwrites the one that is there.
SaveHtml(s) ==
    /\ pc[s] = "save"
    /\ UNCHANGED << model_cache, loads, widgets, button, loc, fh, failedBefore,
                    page, history >>
    /\ file' = [exists |-> TRUE, content |-> loc[s].force_plot_html]
    /\ interfered' = [Disturb(s) EXCEPT ![s] = FALSE]
    /\ Goto(s, "open")

\* Line 96: open("temp_force_plot.html", "r").
OpenFile(s) ==
    /\ pc[s] = "open"
    /\ UNCHANGED << model_cache, loads, file, widgets, button, loc, failedBefore,
                    interfered, page, history >>
    /\ IF file.exists
       THEN /\ fh' = [fh EXCEPT ![s] = [state |-> "live", content |-> NoPlot]]
            /\ Goto(s, "read")
       ELSE /\ Raise(s, Exc("FileNotFoundError", "open"))
            /\ UNCHANGED fh

\* Line 97: st.components.v1.html(f.read(), ...), then the with block closes
\* the handle.  A handle whose file has been removed still reads what the
\* file held; a handle whose file has been overwritten reads the new text.
ReadFile(s) ==
    /\ pc[s] = "read"
    /\ UNCHANGED << model_cache, loads, file, widgets, button, loc, failedBefore,
                    interfered, history >>
    /\ Show(s, ForceOutputs(IF fh[s].state = "live"
                            THEN file.content ELSE fh[s].content))
    /\ fh' = [fh EXCEPT ![s] = ClosedHandle]
    /\ Goto(s, "exists")

\* Line 100: os.path.exists("temp_force_plot.html").
FileExists(s) ==
    /\ pc[s] = "exists"
    /\ UNCHANGED << model_cache, loads, file, widgets, button, loc, fh, failedBefore,
                    interfered, page, history >>
    /\ Goto(s, IF file.exists THEN "remove" ELSE "panel_b")

\* Line 101: os.remove("temp_force_plot.html").
RemoveFile(s) ==
    /\ pc[s] = "remove"
    /\ UNCHANGED << model_cache, loads, widgets, button, loc, failedBefore,
                    page, history >>
    /\ IF file.exists
       THEN /\ file' = NoFile
            /\ fh' = [t \in Sessions |->
                         IF fh[t].state = "live"
                         THEN [state |-> "orphan", content |-> file.content]
                         ELSE fh[t]]
            /\ interfered' = Disturb(s)
            /\ Goto(s, "panel_b")
       ELSE /\ Raise(s, Exc("FileNotFoundError", "os.remove"))
            /\ UNCHANGED << file, fh, interfered >>

\* Lines 103-120, and the footer of lines 129-130 that ends the run.
PanelB(s) ==
    /\ pc[s] = "panel_b"
    /\ UNCHANGED << model_cache, loads, file, widgets, button, loc, fh, failedBefore,
                    interfered, history >>
    /\ Show(s, PanelBHeading \o WaterfallOutputs(loc[s].explanation) \o Footer)
    /\ Goto(s, "idle")

\* The library calls of each step that can raise for reasons of their own.
\* (open and os.remove raise when the file is missing: see those steps.)
FaultSites(p) ==
    CASE p = "predict" -> {"model.predict", "predict_proba"}
      [] p = "explain" -> {"shap.TreeExplainer"}
      [] p = "force"   -> {"shap.plots.force"}
      [] p = "save"    -> {"shap.save_html"}
      [] p = "read"    -> {"read"}
      [] p = "panel_b" -> {"shap.plots.waterfall"}
      [] OTHER         -> {}

\* What the step has put on the page before the call at the site is made.
ShownBefore(site) ==
    CASE site = "shap.plots.force"     -> PanelAHeading
      [] site = "shap.plots.waterfall" -> PanelBHeading
      [] OTHER                         -> <<>>

\* A library call inside the try block raises.
LibraryRaises(s) ==
    /\ \E site \in FaultSites(pc[s]) :
          /\ Raise(s, Exc("Exception", site))
          /\ Show(s, ShownBefore(site))
          /\ loc' = IF site = "predict_proba"
                    THEN [loc EXCEPT ![s].pred_class = PredClass(loc[s].input_data)]
                    ELSE loc
    /\ UNCHANGED << model_cache, loads, file, widgets, button, fh, failedBefore,
                    interfered, history >>

\* Mutant: the except branch clears what the run has shown so far.
ExceptBranch_ClearsPage(s) ==
    /\ pc[s] = "except"
    /\ UNCHANGED << model_cache, loads, file, widgets, button, loc, interfered,
                    exc, history >>
    /\ page' = [page EXCEPT ![s] = Header \o ExceptOutputs(exc[s]) \o Footer]
    /\ fh' = [fh EXCEPT ![s] = ClosedHandle]
    /\ failedBefore' = [failedBefore EXCEPT ![s] = TRUE]
    /\ pc' = [pc EXCEPT ![s] = "idle"]

\* Lines 122-124, and the footer of lines 129-130 that ends the run.  Leaving
\* the with block of line 96 by an exception closes the handle.
ExceptBranch(s) ==
    /\ pc[s] = "except"
    /\ UNCHANGED << model_cache, loads, file, widgets, button, loc, interfered,
                    exc, history >>
    /\ Show(s, ExceptOutputs(exc[s]) \o Footer)
    /\ fh' = [fh EXCEPT ![s] = ClosedHandle]
    /\ failedBefore' = [failedBefore EXCEPT ![s] = TRUE]
    /\ pc' = [pc EXCEPT ![s] = "idle"]

HandlerStep(s) ==
    \/ PredictBlock(s)
    \/ ExplainBlock(s)
    \/ ForceBlock(s)
    \/ SaveHtml(s)
    \/ OpenFile(s)
    \/ ReadFile(s)
    \/ FileExists(s)
    \/ RemoveFile(s)
    \/ PanelB(s)

Next ==
    \E s \in Sessions :
        \/ Rerun(s)
        \/ PressButton(s)
        \/ HandlerStep(s)
        \/ LibraryRaises(s)
        \/ ExceptBranch(s)

Spec == Init /\ [][Next]_vars

(***************************************************************************)
(* The execution model the design states: one request at a time, and a     *)
(* working environment in which no library call fails on its own.          *)
(***************************************************************************)
Quiet(s) == \A t \in Sessions \ {s} : pc[t] \in {"new", "idle", "aborted"}

NextSequential ==
    \E s \in Sessions :
        \/ Rerun(s)
        \/ (Quiet(s) /\ PressButton(s))
        \/ HandlerStep(s)

SpecSequential == Init /\ [][NextSequential]_vars

(***************************************************************************)
(* Properties.                                                             *)
(***************************************************************************)
AtRest(s) == pc[s] \in {"new", "idle", "aborted"}

\* A run of the handler that has ended, and how.
Ended(s)     == button[s] /\ pc[s] = "idle"
Failed(s)    == Ended(s) /\ exc[s] # NoExc
Succeeded(s) == Ended(s) /\ exc[s] = NoExc

\* The run has computed its attribution result (lines 68-83 are done).
Explained(s) == button[s] /\ loc[s].explanation # NoExplanation

\* What an element is, without the values it shows.
Tag(el) ==
    << el.kind,
       IF el.kind \in {"title", "markdown", "caption"} THEN el.text ELSE "" >>

Tags(p) == [ i \in 1..Len(p) |-> Tag(p[i]) ]

HeaderTags == << <<"title", "Dementia Stage Prediction">> >>
FooterTags == << <<"markdown", "---">>, <<"caption", "footer">> >>
ErrorTags  == << <<"error", "">>, <<"exception", "">> >>

\* The outputs of a complete invocation, in the order of the source.
FixedOrder ==
    << <<"success", "">>, <<"write", "">>,
       <<"markdown", "A. SHAP Force Plot">>, <<"html", "">>,
       <<"caption", "A.">>, <<"markdown", "B. SHAP Waterfall Plot">>,
       <<"pyplot", "">>, <<"caption", "B.">> >>

\* How many of the outputs precede each call that can raise.
ShownUpTo(site) ==
    CASE site \in {"model.predict", "predict_proba", "class_map"} -> 0
      [] site = "shap.TreeExplainer" -> 2
      [] site \in {"shap.plots.force", "shap.save_html", "open", "read"} -> 3
      [] site = "os.remove" -> 4
      [] site = "shap.plots.waterfall" -> 6
      [] OTHER -> -1

ExpectedLabel(c) ==
    IF c = 0 THEN "Moderate to Severe Dementia" ELSE "Very Mild to Mild Dementia"

ErrorElements(p) == SelectSeq(p, LAMBDA el : el.kind \in {"error", "exception", "uncaught"})

\* C1: every exception raised in the predict -> explain -> render sequence,
\* at whichever step, goes to the one except branch and nowhere else; the
\* run then ends with exactly one error banner and one trace, both showing
\* that exception, directly above the footer; and the session stays usable:
\* the button can be pressed again.
C1_CaughtOnceSessionUsable ==
    \A s \in Sessions :
        /\ (button[s] /\ exc[s] # NoExc) => pc[s] \in {"except", "idle"}
        /\ pc[s] = "except" => (exc[s] # NoExc /\ ErrorElements(page[s]) = <<>>)
        /\ Failed(s) =>
              /\ Len(ErrorElements(page[s])) = 2
              /\ Len(page[s]) >= 5
              /\ LET n == Len(page[s])
                 IN  /\ page[s][n - 3].kind = "error"
                     /\ page[s][n - 3].err = exc[s]
                     /\ page[s][n - 2].kind = "exception"
                     /\ page[s][n - 2].err = exc[s]
              /\ ENABLED PressButton(s)

\* C1 witness: a session whose earlier invocation ended in the except branch
\* has run a later invocation to a successful end.
C1_RetrySucceeded ==
    \E s \in Sessions :
        /\ failedBefore[s]
        /\ Succeeded(s)
        /\ page[s][Len(page[s]) - 2].kind = "caption"
        /\ page[s][Len(page[s]) - 2].text = "B."

\* C2 as stated: a run that ends with a failure of any kind, a failed load
\* of the model artifact included, was caught by the handler's boundary and
\* shows the error banner and the trace.
C2_EveryFailureAtTheBoundary ==
    \A s \in Sessions :
        (AtRest(s) /\ exc[s] # NoExc) =>
            /\ pc[s] = "idle"
            /\ Tags(ErrorElements(page[s])) = ErrorTags

\* C2 amended: a failure raised inside the predict -> explain -> render
\* sequence is caught at the boundary and shown as banner plus trace, the
\* same two elements whatever the step that failed.  A failed load of the
\* model artifact is raised at line 27, before the boundary: it is not
\* caught by it, it ends that script run before anything of the page is
\* drawn, the handler is never entered, and the framework shows the
\* exception; the session stays alive and the page can be rerun.
C2_LoadFailureOutsideBoundary ==
    \A s \in Sessions :
        /\ exc[s].type = "LoadError" <=> pc[s] = "aborted"
        /\ pc[s] = "aborted" =>
              /\ ~button[s]
              /\ Tags(page[s]) = << <<"uncaught", "">> >>
              /\ page[s][1].err = exc[s]
              /\ ENABLED Rerun(s)
        /\ (AtRest(s) /\ exc[s] # NoExc /\ pc[s] # "aborted") =>
              /\ button[s]
              /\ Tags(ErrorElements(page[s])) = ErrorTags

\* C2 witness: one session's script run was ended by a failed load of the
\* model artifact, and another session's invocation failed inside the
\* handler and was caught.
C2_LoadFailedAndHandlerFailed ==
    \E s, t \in Sessions :
        /\ pc[s] = "aborted" /\ exc[s].at = "load_model"
        /\ Failed(t)

\* C3: the page of an invocation is the title, then a prefix of the fixed
\* output order, then (once the run has ended) the error pair if it failed
\* and the footer.  After a failure the prefix is exactly the outputs that
\* precede the failing call: nothing shown earlier is taken back or shown
\* twice, and nothing of a later step appears.  The class and confidence
\* shown are those of this run's prediction.
C3_FixedOrderNoRollback ==
    \A s \in Sessions :
        button[s] =>
            \E n \in 0..Len(FixedOrder) :
                /\ Tags(page[s]) =
                       HeaderTags \o SubSeq(FixedOrder, 1, n)
                       \o (IF Failed(s) THEN ErrorTags ELSE <<>>)
                       \o (IF pc[s] = "idle" THEN FooterTags ELSE <<>>)
                /\ exc[s] # NoExc => n = ShownUpTo(exc[s].at)
                /\ Succeeded(s) => n = Len(FixedOrder)
                /\ n >= 2 =>
                      /\ page[s][2].text = ExpectedLabel(loc[s].pred_class)
                      /\ 10 * page[s][3].num - loc[s].pred_prob \in -5..5

\* C3 witness: an invocation failed while drawing panel B; its page still
\* shows the prediction and the force plot, then the error pair.
C3_FailedAfterPrediction ==
    \E s \in Sessions :
        /\ Failed(s)
        /\ exc[s].at = "shap.plots.waterfall"
        /\ page[s][2].kind = "success"
        /\ page[s][5].kind = "html"

C5_AttributionOfPredictedClass ==
    \A s \in Sessions :
        Explained(s) =>
            LET shv == loc[s].shap_values
                c   == loc[s].pred_class
                e   == loc[s].explanation
            IN  /\ shv.ndim = 3 =>
                      /\ \A i \in 1..4 : loc[s].sv[i] = shv.values3d[i][c]
                      /\ loc[s].base = shv.expected_value[c]
                      /\ loc[s].base + SumSeq(loc[s].sv)
                             = PredictProba(loc[s].input_data)[c]
                /\ shv.ndim # 3 =>
                      /\ loc[s].sv = shv.values2d
                      /\ loc[s].base = shv.expected_scalar
                /\ Len(loc[s].sv) = 4
                /\ e.values = loc[s].sv
                /\ e.base_values = loc[s].base
                /\ loc[s].force_plot_html \in {NoPlot, [plot |-> "force", of |-> e]}
                /\ \A k \in 1..Len(page[s]) :
                      page[s][k].kind = "pyplot" => page[s][k].plot.of = e

\* C5 witness: with class-indexed values, one invocation that predicted
\* class 0 and one that predicted class 1 have both drawn both panels.
C5_BothClassesSliced ==
    \E s, t \in Sessions :
        /\ Succeeded(s) /\ loc[s].shap_values.ndim = 3 /\ loc[s].pred_class = 0
        /\ Succeeded(t) /\ loc[t].shap_values.ndim = 3 /\ loc[t].pred_class = 1

\* C6: the classifier is unpickled at most once in the life of the process;
\* once cached it is never replaced or changed by any step of any run,
\* successful or failed, and every run works on the cached object.
C6_ModelLoadedOnceReadOnly ==
    [][ /\ model_cache.loaded => model_cache' = model_cache
        /\ loads' # loads => (~model_cache.loaded /\ loads = 0 /\ loads' = 1)
        /\ \A s \in Sessions : loc'[s].model \in {"None", model_cache'.kind}
      ]_vars

\* C6 witness: after the one load, a failed and a successful invocation have
\* both run on the cached classifier.
C6_SharedAcrossInvocations ==
    \E s, t \in Sessions :
        /\ loads = 1
        /\ Failed(s) /\ loc[s].pred_class # -1
        /\ Succeeded(t)
        /\ loc[s].model = model_cache.kind
        /\ loc[t].model = model_cache.kind

\* C7: in every script run the feature table is the current slider
\* positions, the four columns in training order, none missing, Education
\* and MMSE in 0..30 and both SUVR scores in -2.00..2.00 (in steps of 0.01);
\* when the handler starts nothing of an earlier request is present.
C7_InputBuiltFreshFromSliders ==
    \A s \in Sessions :
        pc[s] \notin {"new", "aborted"} =>
            /\ loc[s].input_data =
                   << <<"Education", widgets[s].education_years>>,
                      <<"MMSE", widgets[s].mmse>>,
                      <<"FDG_SUVR_Score", widgets[s].fdg_suvr>>,
                      <<"Amyloid_SUVR_Score", widgets[s].amyloid_suvr>> >>
            /\ widgets[s].education_years \in 0..30
            /\ widgets[s].mmse \in 0..30
            /\ widgets[s].fdg_suvr \in -200..200
            /\ widgets[s].amyloid_suvr \in -200..200
            /\ pc[s] = "predict" =>
                  /\ loc[s].pred_class = -1
                  /\ loc[s].pred_prob = -1
                  /\ loc[s].sv = <<>>
                  /\ loc[s].explanation = NoExplanation
                  /\ loc[s].force_plot_html = NoPlot
                  /\ exc[s] = NoExc
                  /\ Tags(page[s]) = HeaderTags

\* C7 witness: a session whose earlier request failed starts a new request
\* with the sliders moved away from their defaults.
C7_NewRequestAfterOld ==
    \E s \in Sessions :
        /\ pc[s] = "predict"
        /\ failedBefore[s]
        /\ widgets[s].education_years = 30
        /\ widgets[s].fdg_suvr = -200

SameResult(a, b) ==
    /\ a.pred_class = b.pred_class
    /\ a.pred_prob = b.pred_prob
    /\ a.sv = b.sv
    /\ a.base = b.base

C9_TempFileGoneAfterInvocation ==
    \A s \in Sessions :
        ( /\ Ended(s)
          /\ loc[s].force_plot_html # NoPlot
          /\ exc[s].at # "shap.save_html"
          /\ \A t \in Sessions \ {s} : AtRest(t) )
        => ~file.exists

\* What goes wrong for a run that shares the file name with another run.
EmbedsForeignPlot(s) ==
    \E k \in 1..Len(page[s]) :
        page[s][k].kind = "html" /\ page[s][k].plot # loc[s].force_plot_html

FileVanished(s) ==
    button[s] /\ exc[s].type = "FileNotFoundError"

\* C10: the bad states of the shared file name arise, and arise only, from
\* another session's run: a run that embeds a plot that is not its own, or
\* finds the file gone at open or at os.remove, has had another run write
\* or remove temp_force_plot.html since its own save_html.
C10_RaceOnSharedFileName ==
    \A s \in Sessions :
        (EmbedsForeignPlot(s) \/ FileVanished(s)) => interfered[s]

\* C10 witness: of two concurrent invocations, one has embedded the other's
\* force plot and the other has found the file deleted at open.
C10_ClobberAndDeleteBeforeRead ==
    \E s, t \in Sessions :
        /\ s # t
        /\ EmbedsForeignPlot(s)
        /\ FileVanished(t) /\ exc[t].at = "open"

\* The third bad state of C10: the file is deleted by the other run between
\* the existence check and os.remove.
C10_DeleteBetweenCheckAndRemove ==
    \E s \in Sessions : FileVanished(s) /\ exc[s].at = "os.remove"

=============================================================================
